---- MODULE Spec2Model ----
(***************************************************************************)
(* Model of the plugin process supervisor of G-Assist                      *)
(* (src/core/g-assist-core.py, class PluginManager, with the start-up loop *)
(* and the command results of class GAssistCore).                          *)
(*                                                                         *)
(* The state is the manager's two dictionaries (plugin_manifests and       *)
(* running_plugins), the child processes it has spawned, one monitor       *)
(* thread per spawned child, and the position of every caller thread       *)
(* inside the manager method it is executing.  The manager takes no lock,  *)
(* so a method is split into steps at every access to shared state and the *)
(* steps of callers, monitors and child processes interleave freely.       *)
(*                                                                         *)
(* Spec and FairSpec are the supervisor over the plugins directory as      *)
(* installed.  StoreSpec is the manager's manifest store over a plugins    *)
(* directory that changes while the manager runs.  PluginSpec is the main  *)
(* loop of the example plugin (src/plugins/examples/blackboxai/plugin.py). *)
(***************************************************************************)
EXTENDS Naturals, Sequences, FiniteSets

VARIABLES
    plugin_manifests,   \* PluginManager.plugin_manifests: name -> manifest
    running_plugins,    \* PluginManager.running_plugins, in insertion order
    procs,              \* the child processes spawned so far; pid = index
    monitors,           \* position of the monitor thread of each pid
    callers,            \* the caller threads: position and locals
    nops,               \* number of manager operations begun so far
    disk,               \* the plugins directory (PluginManager.plugins_dir)
    blackboxai,         \* the example plugin: its globals and main()'s locals
    running             \* GAssistCore.running

vars == <<plugin_manifests, running_plugins, procs, monitors, callers, nops, disk, blackboxai, running>>

----------------------------------------------------------------------------
(* Bounds of the model *)

\* total number of manager operations the callers begin
MaxOps == 2

\* number of changes made to the plugins directory while the manager runs
MaxDiskWrites == 2

\* number of commands the example plugin reads
MaxCommands == 3

----------------------------------------------------------------------------
(* Program constants *)

\* process.wait(timeout=5)
GracePeriod == 5

----------------------------------------------------------------------------
(* The environment: caller threads, the plugins directory, the plugins *)

Callers == {"c1", "c2"}

\* names a caller may pass; "ghost" has no directory under plugins_dir, the
\* manifest of "noexe" has no executable field, and the executable the manifest
\* of "nofile" names is not in its directory
Names == {"alpha", "beta", "ghost", "noexe", "nofile"}

Functions == {"echo", "nope"}

\* the params argument of invoke_plugin: None, {} or {"a": 1}
Params == {"None", "{}", "{a:1}"}

NoManifest == [executable |-> "", functions |-> {}, persistent |-> FALSE, present |-> FALSE]

\* a JSON object without any of the keys the manager reads: {}
EmptyObject == [executable |-> "", functions |-> {}, persistent |-> FALSE, present |-> TRUE]

\* if not manifest: None is falsy, and so is a dict without keys
Truthy(manifest) == manifest.present /\ manifest # EmptyObject

\* manifest.json of each plugin directory as installed, as json.load returns it
InstalledManifest(name) ==
    CASE name = "alpha" -> [executable |-> "alpha.exe", functions |-> {"echo"},
                            persistent |-> TRUE, present |-> TRUE]
      [] name = "beta"  -> [executable |-> "beta.exe", functions |-> {"echo"},
                            persistent |-> FALSE, present |-> TRUE]
      [] name = "noexe" -> [executable |-> "", functions |-> {"echo"},
                            persistent |-> TRUE, present |-> TRUE]
      [] name = "nofile" -> [executable |-> "nofile.exe", functions |-> {"echo"},
                             persistent |-> FALSE, present |-> TRUE]
      [] OTHER          -> NoManifest

\* an entry of plugins_dir under a name: none, a plain file, a subdirectory
\* without manifest.json, or a subdirectory with a manifest.json that is a
\* well-formed JSON text (json) or not; manifest is what json.load returns
NoEntry == [kind |-> "none", json |-> FALSE, manifest |-> NoManifest]
PlainFile == [kind |-> "file", json |-> FALSE, manifest |-> NoManifest]
BareDir == [kind |-> "dir", json |-> FALSE, manifest |-> NoManifest]
BadPluginDir == [kind |-> "plugin", json |-> FALSE, manifest |-> NoManifest]
PluginDir(manifest) == [kind |-> "plugin", json |-> TRUE, manifest |-> manifest]

\* the plugins directory as installed; writes counts the changes made to it
\* since
InstalledDisk ==
    [root |-> TRUE, writes |-> 0,
     entry |-> [n \in Names |-> IF InstalledManifest(n).present
                                THEN PluginDir(InstalledManifest(n)) ELSE NoEntry]]

\* the file plugins_dir / name / manifest.json is there
ManifestExists(name) == disk.root /\ disk.entry[name].kind = "plugin"

\* open(manifest_path) and json.load(f) now: the manifest, or NoManifest when
\* open raises FileNotFoundError or json.load raises JSONDecodeError
DiskManifest(name) ==
    IF ManifestExists(name) /\ disk.entry[name].json
    THEN disk.entry[name].manifest
    ELSE NoManifest

\* the orders in which plugins_dir.iterdir() may list its entries
DirOrders ==
    {<<"noexe", "beta", "ghost", "alpha", "nofile">>,
     <<"alpha", "nofile", "beta", "noexe", "ghost">>}

\* a discovery that takes every subdirectory for a plugin
DiscoverPluginsAnyDir(order) ==
    IF disk.root
    THEN SelectSeq(order, LAMBDA n : disk.entry[n].kind \in {"dir", "plugin"})
    ELSE <<>>

\* discover_plugins when iterdir lists the entries in this order
DiscoverPlugins(order) ==
    IF disk.root
    THEN SelectSeq(order, LAMBDA n : disk.entry[n].kind = "plugin")
    ELSE <<>>

\* exe_path.exists() for plugin_dir / executable
ExeExists(name) == name \in {"alpha", "beta"}

\* the plugins whose executable stays until it is killed: it neither exits
\* on the graceful termination signal nor on its own
IgnoresTerm(name) == name = "beta"

\* the plugins whose reply lines are not JSON texts (the example plugin ends
\* its replies with an end marker: json.dumps(response) + '<<END>>')
MalformedReplies(name) == name = "beta"

\* what main() of the example plugin writes when response is None, and its
\* result dicts (generate_success_response, generate_failure_response) and
\* message dicts (generate_message_response)
NoneResponse == [kind |-> "None", success |-> FALSE, message |-> ""]
GenerateSuccessResponse == [kind |-> "result", success |-> TRUE, message |-> ""]
GenerateFailureResponse(message) == [kind |-> "result", success |-> FALSE, message |-> message]
GenerateMessageResponse(message) == [kind |-> "message", success |-> FALSE, message |-> message]

\* a tool call without a 'func' key
NoFunc == ""

\* no tool call yet
NoCall == [func |-> "none"]

\* the example plugin before its main() runs: API_KEY is the module global
\* (set or None), cmd, response and tool_call are locals of main(), out holds
\* what has been written to the pipe since the last read_command, final
\* telling the writes of main() from those of a command handler, and reads
\* counts the read_command calls
NotStarted ==
    [pc |-> "off", API_KEY |-> FALSE, cmd |-> "", response |-> NoneResponse,
     tool_call |-> NoCall, out |-> <<>>, reads |-> 0]

----------------------------------------------------------------------------
(* running_plugins: a dict, kept as the sequence of its entries in         *)
(* insertion order (the order the dict iterator of shutdown() walks)       *)

Entry(name, pid) == [name |-> name, pid |-> pid]

IndexOf(d, name) ==
    IF \E i \in 1..Len(d) : d[i].name = name
    THEN CHOOSE i \in 1..Len(d) : d[i].name = name
    ELSE 0

\* plugin_name in self.running_plugins
InRunning(name) == IndexOf(running_plugins, name) > 0

\* self.running_plugins[plugin_name]
Lookup(name) == running_plugins[IndexOf(running_plugins, name)].pid

\* self.running_plugins[plugin_name] = process
DictSet(d, name, pid) ==
    IF IndexOf(d, name) > 0
    THEN [d EXCEPT ![IndexOf(d, name)] = Entry(name, pid)]
    ELSE Append(d, Entry(name, pid))

\* del self.running_plugins[plugin_name]
DictDel(d, name) ==
    LET i == IndexOf(d, name)
    IN  SubSeq(d, 1, i - 1) \o SubSeq(d, i + 1, Len(d))

----------------------------------------------------------------------------
(* Wire format *)

\* no command, no parsed reply
NoObj == [tool_calls |-> <<>>]

\* a command whose properties are the params as given, None included
PrepareCommandRaw(fn, params) ==
    [tool_calls |-> <<[func |-> fn, properties |-> params]>>]

\* _prepare_command: {"tool_calls": [{"func": fn, "properties": params or {}}]}
PrepareCommand(fn, params) ==
    [tool_calls |-> <<[func |-> fn,
                       properties |-> IF params \in {"None", "{}"} THEN "{}" ELSE params]>>]

\* the function_name argument of the invoke_plugin call that made command
FunctionName(command) == command.tool_calls[1].func

\* json.dumps(command) + '\n'; req names the caller thread that wrote the
\* line (no part of the text: it is there to tell whose request a line is)
JsonLine(obj, req) == [json |-> TRUE, tool_calls |-> obj.tool_calls, req |-> req]

\* the reply line of a plugin that echoes the request it has read
EchoReply(line) == [line EXCEPT !.req = ""]

\* the reply line plugin name writes for a request line: its echo, or, from a
\* plugin that frames its replies in its own way, a line that is no JSON text
ReplyLine(name, line) ==
    IF MalformedReplies(name) THEN [EchoReply(line) EXCEPT !.json = FALSE] ELSE EchoReply(line)

\* json.loads(response_line): the parsed object, or NoObj on JSONDecodeError
JsonLoads(line) ==
    IF line.json THEN [tool_calls |-> line.tool_calls] ELSE NoObj

----------------------------------------------------------------------------
(* Caller threads *)

\* what a call gave back: the value, and in log the warning or error that
\* _check_function_exists or _send_and_receive logged on the way to it
NoRet == [kind |-> "none", ok |-> FALSE, obj |-> NoObj, log |-> ""]
BoolRet(b) == [kind |-> "bool", ok |-> b, obj |-> NoObj, log |-> ""]
NoneRet == [kind |-> "None", ok |-> FALSE, obj |-> NoObj, log |-> ""]
ReplyRet(obj) == [kind |-> "reply", ok |-> TRUE, obj |-> obj, log |-> ""]
InfoRet(in_running) == [kind |-> "info", ok |-> in_running, obj |-> NoObj, log |-> ""]
Fault(what) == [kind |-> what, ok |-> FALSE, obj |-> NoObj, log |-> ""]
ManifestRet(manifest) == [kind |-> "manifest", ok |-> TRUE, obj |-> manifest, log |-> ""]
NamesRet(names) == [kind |-> "names", ok |-> TRUE, obj |-> names, log |-> ""]
ListRet(infos) == [kind |-> "list", ok |-> TRUE, obj |-> infos, log |-> ""]

\* return None after logger.error / logger.warning of msg
NoneLogged(msg) == [NoneRet EXCEPT !.log = msg]

IdleCaller ==
    [pc |-> "idle", op |-> "", name |-> "", command |-> NoObj,
     proc |-> 0, waited |-> 0, itpos |-> 0, itsize |-> 0, itleft |-> 0,
     sweep |-> FALSE, lazy |-> FALSE, answered |-> FALSE,
     todo |-> <<>>, tried |-> {}, ret |-> NoRet]

SetCaller(c, rec) == callers' = [callers EXCEPT ![c] = rec]

\* the caller record once the manager method it called has returned ret: the
\* locals are gone, what was called and what came back stay for inspection
Returns(cr, ret) ==
    [IdleCaller EXCEPT !.pc = "done", !.op = cr.op, !.name = cr.name, !.ret = ret]

\* a function check that passes every name once the manifest is cached
CheckFunctionExistsAnyName(manifest, fn) ==
    manifest.present

\* _check_function_exists on a manifest: its function list is an allow-list
CheckFunctionExists(manifest, fn) ==
    /\ manifest.present
    /\ fn \in manifest.functions

\* invoke_plugin once _ensure_plugin_running has returned True, the cached
\* manifest of the plugin being manifest: on to the send if the function is
\* in the manifest, else return None
Ensured(cr, manifest) ==
    IF CheckFunctionExists(manifest, FunctionName(cr.command))
    THEN [cr EXCEPT !.pc = "inv_send", !.lazy = FALSE]
    ELSE Returns(cr, NoneLogged("Function not found"))

\* the caller record of GAssistCore.start() after one of its start_plugin
\* calls has returned: the value is dropped and the loop goes on
LoopsOn(cr) == [cr EXCEPT !.pc = "cs_next", !.name = "", !.proc = 0]

\* a lazy start whose failure invoke_plugin does not look at
StartReturnsIgnoringFailure(cr, b, manifest) ==
    IF cr.lazy
    THEN Ensured(cr, manifest)
    ELSE IF cr.op = "core_start" THEN LoopsOn(cr) ELSE Returns(cr, BoolRet(b))

\* the caller record after start_plugin returns b, the cached manifest of the
\* plugin being manifest; a start made by invoke_plugin goes on in it
StartReturns(cr, b, manifest) ==
    IF cr.lazy
    THEN IF b THEN Ensured(cr, manifest) ELSE Returns(cr, NoneRet)
    ELSE IF cr.op = "core_start" THEN LoopsOn(cr) ELSE Returns(cr, BoolRet(b))

\* the caller record after stop_plugin returns b
StopReturns(cr, b) ==
    IF cr.sweep
    THEN [cr EXCEPT !.pc = "sd_next", !.proc = 0, !.waited = 0, !.name = ""]
    ELSE Returns(cr, BoolRet(b))

\* the caller record after an exception leaves the manager uncaught
Raises(cr, what) ==
    [IdleCaller EXCEPT !.pc = "fault", !.op = cr.op, !.name = cr.name, !.ret = Fault(what)]

----------------------------------------------------------------------------

Init ==
    /\ plugin_manifests = [n \in Names |-> NoManifest]
    /\ running_plugins = <<>>
    /\ procs = <<>>
    /\ monitors = <<>>
    /\ callers = [c \in Callers |-> IdleCaller]
    /\ nops = 0
    /\ disk = InstalledDisk
    /\ blackboxai = NotStarted
    /\ running = FALSE

\* a caller thread that is in no manager method enters one; the threads are
\* alike, and "c1" names the one that makes the first call
Begins(c) ==
    /\ callers[c].pc \in {"idle", "done"}
    /\ c = "c1" \/ callers["c1"].pc # "idle"
    /\ nops < MaxOps
    /\ nops' = nops + 1
    /\ UNCHANGED <<disk, blackboxai>>

\* a caller thread enters a method of the plugin manager
Enters(c) ==
    /\ Begins(c)
    /\ UNCHANGED running

\* the manifest start_plugin and get_plugin_info work with: the cached one,
\* else the one load_plugin_manifest reads (NoManifest when that fails)
ManifestFor(name) ==
    IF Truthy(plugin_manifests[name]) THEN plugin_manifests[name] ELSE DiskManifest(name)

\* a load whose failure drops the entry the cache had for the name
LoadedOrDropped(cache, name) ==
    [cache EXCEPT ![name] = DiskManifest(name)]

\* the cache after load_plugin_manifest(name): what it has loaded is stored,
\* a failed load stores nothing
Loaded(cache, name) ==
    IF DiskManifest(name).present
    THEN [cache EXCEPT ![name] = DiskManifest(name)]
    ELSE cache

\* the cache after the manifest lookup of start_plugin and get_plugin_info:
\* manifest = self.plugin_manifests.get(name); if not manifest: load
Looked(cache, name) ==
    IF Truthy(cache[name]) THEN cache ELSE Loaded(cache, name)

\* a lookup that hands the loaded manifest on without storing it
CacheManifestForgets(name) ==
    plugin_manifests' = plugin_manifests

CacheManifest(name) ==
    plugin_manifests' = Looked(plugin_manifests, name)

\* start_plugin without its first test, the one on running_plugins
StartCheckNoRunningTest(c, cr) ==
    /\ CacheManifest(cr.name)
    /\ IF /\ ManifestFor(cr.name).present
          /\ ManifestFor(cr.name).executable # ""
          /\ ExeExists(cr.name)
       THEN SetCaller(c, [cr EXCEPT !.pc = "start_spawn"])
       ELSE SetCaller(c, StartReturns(cr, FALSE, ManifestFor(cr.name)))

\* start_plugin without its test that the executable file exists
StartCheckNoExeTest(c, cr) ==
    IF InRunning(cr.name)
    THEN /\ SetCaller(c, StartReturns(cr, TRUE, plugin_manifests[cr.name]))
         /\ UNCHANGED plugin_manifests
    ELSE /\ CacheManifest(cr.name)
         /\ IF /\ ManifestFor(cr.name).present
               /\ ManifestFor(cr.name).executable # ""
            THEN SetCaller(c, [cr EXCEPT !.pc = "start_spawn"])
            ELSE SetCaller(c, StartReturns(cr, FALSE, ManifestFor(cr.name)))

\* start_plugin up to the spawn, by a caller with locals cr: the running check,
\* then the manifest, its executable field and the executable file
StartCheck(c, cr) ==
    IF InRunning(cr.name)
    THEN /\ SetCaller(c, StartReturns(cr, TRUE, plugin_manifests[cr.name]))
         /\ UNCHANGED plugin_manifests
    ELSE /\ CacheManifest(cr.name)
         /\ IF /\ ManifestFor(cr.name).present
               /\ ManifestFor(cr.name).executable # ""
               /\ ExeExists(cr.name)
            THEN SetCaller(c, [cr EXCEPT !.pc = "start_spawn"])
            ELSE SetCaller(c, StartReturns(cr, FALSE, ManifestFor(cr.name)))

\* a caller thread calls start_plugin(name)
StartPlugin(c, name) ==
    /\ Enters(c)
    /\ StartCheck(c, [IdleCaller EXCEPT !.op = "start", !.name = name])
    /\ UNCHANGED <<running_plugins, procs, monitors>>

NewProc(name) ==
    [name |-> name, alive |-> TRUE, sig |-> "none", inbox |-> <<>>, out |-> <<>>]

\* a spawn that waits until no caller is in a request/reply round trip, as
\* under one lock around every use of a child
StartSpawnUnderOneLock(c) ==
    LET cr == callers[c]
        pid == Len(procs) + 1
    IN  /\ cr.pc = "start_spawn"
        /\ \A d \in Callers : callers[d].pc # "inv_recv"
        /\ \/ /\ procs' = Append(procs, NewProc(cr.name))
              /\ running_plugins' = DictSet(running_plugins, cr.name, pid)
              /\ monitors' = Append(monitors, "poll")
              /\ SetCaller(c, StartReturns([cr EXCEPT !.proc = pid], TRUE,
                                           plugin_manifests[cr.name]))
           \/ /\ SetCaller(c, StartReturns(cr, FALSE, plugin_manifests[cr.name]))
              /\ UNCHANGED <<running_plugins, procs, monitors>>
        /\ UNCHANGED <<plugin_manifests, nops, disk, blackboxai, running>>

\* a spawn whose lazy start is undone when the function check of the invoke
\* fails: the child is killed and never registered, its monitor never runs
StartSpawnRollsBack(c) ==
    LET cr == callers[c]
        pid == Len(procs) + 1
        after == StartReturns([cr EXCEPT !.proc = pid], TRUE, plugin_manifests[cr.name])
        undone == cr.lazy /\ after.pc = "done"
    IN  /\ cr.pc = "start_spawn"
        /\ \/ /\ procs' = Append(procs, IF undone
                                         THEN [NewProc(cr.name) EXCEPT !.alive = FALSE, !.sig = "kill"]
                                         ELSE NewProc(cr.name))
              /\ running_plugins' = IF undone THEN running_plugins
                                     ELSE DictSet(running_plugins, cr.name, pid)
              /\ monitors' = Append(monitors, IF undone THEN "done" ELSE "poll")
              /\ SetCaller(c, after)
           \/ /\ SetCaller(c, StartReturns(cr, FALSE, plugin_manifests[cr.name]))
              /\ UNCHANGED <<running_plugins, procs, monitors>>
        /\ UNCHANGED <<plugin_manifests, nops, disk, blackboxai, running>>

\* subprocess.Popen, the registration and the start of the monitor thread; an
\* invoke_plugin that goes on to the send remembers in proc the child its own
\* start has spawned, until the send looks the process up
StartSpawn(c) ==
    LET cr == callers[c]
        pid == Len(procs) + 1
    IN  /\ cr.pc = "start_spawn"
        /\ \/ /\ procs' = Append(procs, NewProc(cr.name))
              /\ running_plugins' = DictSet(running_plugins, cr.name, pid)
              /\ monitors' = Append(monitors, "poll")
              /\ SetCaller(c, StartReturns([cr EXCEPT !.proc = pid], TRUE,
                                           plugin_manifests[cr.name]))
           \/ \* except (OSError, subprocess.SubprocessError): return False
              /\ SetCaller(c, StartReturns(cr, FALSE, plugin_manifests[cr.name]))
              /\ UNCHANGED <<running_plugins, procs, monitors>>
        /\ UNCHANGED <<plugin_manifests, nops, disk, blackboxai, running>>

----------------------------------------------------------------------------
(* Child processes *)

\* the pids there can be: an operation spawns at most one child (of the
\* persistent plugins GAssistCore.start() tries, one has an executable)
Pids == 1..MaxOps

\* the children spawned so far
Spawned == 1..Len(procs)

SetProc(pid, rec) == procs' = [procs EXCEPT ![pid] = rec]

\* what Popen.terminate() / Popen.kill() do to the child: send_signal polls
\* first and sends nothing to a child that has already exited
Signalled(pr, sig) == IF pr.alive THEN [pr EXCEPT !.sig = sig] ELSE pr

\* the child leaves: its input pipe is gone, its output stays readable to EOF
Exited(pr) == [pr EXCEPT !.alive = FALSE, !.inbox = <<>>]

\* the plugin reads one request line and answers it with one reply line
PluginReply(pid) ==
    LET pr == procs[pid]
        line == Head(pr.inbox)
    IN  /\ pid \in Spawned
        /\ pr.alive
        /\ pr.inbox # <<>>
        /\ SetProc(pid, [pr EXCEPT !.inbox = Tail(pr.inbox),
                                   !.out = Append(pr.out, ReplyLine(pr.name, line))])
        /\ callers' = [c \in Callers |->
                         IF c = line.req /\ callers[c].pc = "inv_recv" /\ callers[c].proc = pid
                         THEN [callers[c] EXCEPT !.answered = TRUE]
                         ELSE callers[c]]
        /\ UNCHANGED <<plugin_manifests, running_plugins, monitors, nops, disk, blackboxai, running>>

\* the plugin exits on its own (it crashes, or it is done)
PluginExit(pid) ==
    /\ pid \in Spawned
    /\ procs[pid].alive
    /\ procs[pid].sig = "none"
    /\ ~IgnoresTerm(procs[pid].name)
    /\ SetProc(pid, Exited(procs[pid]))
    /\ UNCHANGED <<plugin_manifests, running_plugins, monitors, callers, nops, disk, blackboxai, running>>

\* the plugin exits because of a signal: the kill signal always ends it, the
\* termination signal ends it unless its executable ignores that signal
PluginDie(pid) ==
    /\ pid \in Spawned
    /\ procs[pid].alive
    /\ \/ procs[pid].sig = "kill"
       \/ procs[pid].sig = "term" /\ ~IgnoresTerm(procs[pid].name)
    /\ SetProc(pid, Exited(procs[pid]))
    /\ UNCHANGED <<plugin_manifests, running_plugins, monitors, callers, nops, disk, blackboxai, running>>

----------------------------------------------------------------------------
(* _monitor_plugin: one thread per spawned child *)

\* while process.poll() is None
MonitorPoll(pid) ==
    /\ pid \in Spawned
    /\ monitors[pid] = "poll"
    /\ monitors' = [monitors EXCEPT ![pid] = IF procs[pid].alive THEN "read" ELSE "cleanup"]
    /\ UNCHANGED <<plugin_manifests, running_plugins, procs, callers, nops, disk, blackboxai, running>>

\* process.stdout.readline(): blocks until a line is there or the pipe is at
\* EOF; the line is logged and dropped
MonitorRead(pid) ==
    LET pr == procs[pid]
    IN  /\ pid \in Spawned
        /\ monitors[pid] = "read"
        /\ pr.out # <<>> \/ ~pr.alive
        /\ SetProc(pid, [pr EXCEPT !.out = IF pr.out = <<>> THEN <<>> ELSE Tail(pr.out)])
        /\ monitors' = [monitors EXCEPT ![pid] = "poll"]
        /\ UNCHANGED <<plugin_manifests, running_plugins, callers, nops, disk, blackboxai, running>>

\* a read error that ends the monitor thread without the finally clause
MonitorErrorNoCleanup(pid) ==
    /\ pid \in Spawned
    /\ monitors[pid] = "read"
    /\ monitors' = [monitors EXCEPT ![pid] = "done"]
    /\ UNCHANGED <<plugin_manifests, running_plugins, procs, callers, nops, disk, blackboxai, running>>

\* the read raises OSError or ValueError: except, then finally
MonitorError(pid) ==
    /\ pid \in Spawned
    /\ monitors[pid] = "read"
    /\ monitors' = [monitors EXCEPT ![pid] = "cleanup"]
    /\ UNCHANGED <<plugin_manifests, running_plugins, procs, callers, nops, disk, blackboxai, running>>

\* a dict iterator that has consumed the entries before position i, after the
\* entry at position i is deleted
IterAfterDel(cr, i) ==
    IF cr.op = "shutdown" /\ cr.itpos >= i THEN [cr EXCEPT !.itpos = cr.itpos - 1] ELSE cr

\* finally: if plugin_name in self.running_plugins: del ...
MonitorCleanup(pid) ==
    LET name == procs[pid].name
    IN  /\ pid \in Spawned
        /\ monitors[pid] = "cleanup"
        /\ monitors' = [monitors EXCEPT ![pid] = "done"]
        /\ IF InRunning(name)
           THEN /\ running_plugins' = DictDel(running_plugins, name)
                /\ callers' = [c \in Callers |->
                                 IterAfterDel(callers[c], IndexOf(running_plugins, name))]
           ELSE UNCHANGED <<running_plugins, callers>>
        /\ UNCHANGED <<plugin_manifests, procs, nops, disk, blackboxai, running>>

----------------------------------------------------------------------------
(* stop_plugin *)

\* stop_plugin without its test on running_plugins
StopCheckNoRunningTest(c, cr) ==
    SetCaller(c, [cr EXCEPT !.pc = "stop_term"])

\* if plugin_name not in self.running_plugins: return True
StopCheck(c, cr) ==
    IF InRunning(cr.name)
    THEN SetCaller(c, [cr EXCEPT !.pc = "stop_term"])
    ELSE SetCaller(c, StopReturns(cr, TRUE))

\* a caller thread calls stop_plugin(name)
StopPlugin(c, name) ==
    /\ Enters(c)
    /\ StopCheck(c, [IdleCaller EXCEPT !.op = "stop", !.name = name])
    /\ UNCHANGED <<plugin_manifests, running_plugins, procs, monitors>>

\* stop_plugin(plugin_name) called by the sweep of shutdown()
StopSwept(c) ==
    /\ callers[c].pc = "stop_check"
    /\ StopCheck(c, callers[c])
    /\ UNCHANGED <<plugin_manifests, running_plugins, procs, monitors, nops, disk, blackboxai, running>>

\* process = self.running_plugins[plugin_name]; process.terminate(), which
\* may raise OSError when it signals a child that is there (except OSError:
\* return False)
StopTerminate(c) ==
    LET cr == callers[c]
    IN  /\ cr.pc = "stop_term"
        /\ IF InRunning(cr.name)
           THEN \/ /\ SetProc(Lookup(cr.name), Signalled(procs[Lookup(cr.name)], "term"))
                   /\ SetCaller(c, [cr EXCEPT !.pc = "stop_wait", !.proc = Lookup(cr.name)])
                \/ /\ procs[Lookup(cr.name)].alive
                   /\ SetCaller(c, StopReturns(cr, FALSE))
                   /\ UNCHANGED procs
           ELSE /\ SetCaller(c, Raises(cr, "KeyError"))
                /\ UNCHANGED procs
        /\ UNCHANGED <<plugin_manifests, running_plugins, monitors, nops, disk, blackboxai, running>>

\* process.wait(timeout=5) returns: the child has exited
StopWaitReturns(c) ==
    LET cr == callers[c]
    IN  /\ cr.pc = "stop_wait"
        /\ ~procs[cr.proc].alive
        /\ SetCaller(c, StopReturns(cr, TRUE))
        /\ UNCHANGED <<plugin_manifests, running_plugins, procs, monitors, nops, disk, blackboxai, running>>

\* one unit of the wait passes with the child still there
StopWaitTick(c) ==
    LET cr == callers[c]
    IN  /\ cr.pc = "stop_wait"
        /\ procs[cr.proc].alive
        /\ cr.waited < GracePeriod
        /\ SetCaller(c, [cr EXCEPT !.waited = cr.waited + 1])
        /\ UNCHANGED <<plugin_manifests, running_plugins, procs, monitors, nops, disk, blackboxai, running>>

\* a wait whose timeout comes one unit early
StopTimeoutKillEarly(c) ==
    LET cr == callers[c]
    IN  /\ cr.pc = "stop_wait"
        /\ procs[cr.proc].alive
        /\ cr.waited + 1 = GracePeriod
        /\ SetProc(cr.proc, Signalled(procs[cr.proc], "kill"))
        /\ SetCaller(c, StopReturns(cr, TRUE))
        /\ UNCHANGED <<plugin_manifests, running_plugins, monitors, nops, disk, blackboxai, running>>

\* except subprocess.TimeoutExpired: process.kill(); return True.  An OSError
\* of kill() is raised inside this except clause, where the except OSError
\* clause of the same try statement does not catch it
StopTimeoutKill(c) ==
    LET cr == callers[c]
    IN  /\ cr.pc = "stop_wait"
        /\ procs[cr.proc].alive
        /\ cr.waited = GracePeriod
        /\ \/ /\ SetProc(cr.proc, Signalled(procs[cr.proc], "kill"))
              /\ SetCaller(c, StopReturns(cr, TRUE))
           \/ /\ SetCaller(c, Raises(cr, "OSError"))
              /\ UNCHANGED procs
        /\ UNCHANGED <<plugin_manifests, running_plugins, monitors, nops, disk, blackboxai, running>>

----------------------------------------------------------------------------
(* invoke_plugin *)

\* _ensure_plugin_running: start the plugin if it is not in running_plugins
EnsurePluginRunning(c, cr) ==
    IF InRunning(cr.name)
    THEN /\ SetCaller(c, Ensured(cr, plugin_manifests[cr.name]))
         /\ UNCHANGED plugin_manifests
    ELSE StartCheck(c, [cr EXCEPT !.lazy = TRUE])

\* a caller thread calls invoke_plugin(name, fn, params); the command that
\* _prepare_command makes of fn and params is kept in the caller's locals
InvokePlugin(c, name, fn, params) ==
    /\ Enters(c)
    /\ EnsurePluginRunning(c, [IdleCaller EXCEPT !.op = "invoke", !.name = name,
                                                 !.command = PrepareCommand(fn, params)])
    /\ UNCHANGED <<running_plugins, procs, monitors>>

\* _prepare_command, and _send_and_receive up to the flush of the request line
InvokeSend(c) ==
    LET cr == callers[c]
        pid == Lookup(cr.name)
        line == JsonLine(cr.command, c)
    IN  /\ cr.pc = "inv_send"
        /\ IF ~InRunning(cr.name)
           THEN /\ SetCaller(c, Raises(cr, "KeyError"))
                /\ UNCHANGED procs
           ELSE IF ~procs[pid].alive
           THEN \* BrokenPipeError is an OSError
                /\ SetCaller(c, Returns(cr, NoneLogged("Error communicating")))
                /\ UNCHANGED procs
           ELSE /\ SetProc(pid, [procs[pid] EXCEPT !.inbox = Append(@, line)])
                /\ SetCaller(c, [cr EXCEPT !.pc = "inv_recv", !.proc = pid])
        /\ UNCHANGED <<plugin_manifests, running_plugins, monitors, nops, disk, blackboxai, running>>

\* a reply read whose json.loads is outside the try block
InvokeReceiveNoExcept(c) ==
    LET cr == callers[c]
        pr == procs[cr.proc]
    IN  /\ cr.pc = "inv_recv"
        /\ pr.out # <<>> \/ ~pr.alive
        /\ IF pr.out = <<>>
           THEN /\ SetCaller(c, Returns(cr, NoneLogged("No response received")))
                /\ UNCHANGED procs
           ELSE /\ SetProc(cr.proc, [pr EXCEPT !.out = Tail(pr.out)])
                /\ IF Head(pr.out).json
                   THEN SetCaller(c, Returns(cr, ReplyRet(JsonLoads(Head(pr.out)))))
                   ELSE SetCaller(c, Raises(cr, "JSONDecodeError"))
        /\ UNCHANGED <<plugin_manifests, running_plugins, monitors, nops, disk, blackboxai, running>>

\* a reply read that waits for a line and never returns at EOF
InvokeReceiveNoEof(c) ==
    LET cr == callers[c]
        pr == procs[cr.proc]
    IN  /\ cr.pc = "inv_recv"
        /\ pr.out # <<>>
        /\ SetProc(cr.proc, [pr EXCEPT !.out = Tail(pr.out)])
        /\ IF Head(pr.out).json
           THEN SetCaller(c, Returns(cr, ReplyRet(JsonLoads(Head(pr.out)))))
           ELSE SetCaller(c, Returns(cr, NoneLogged("Error communicating")))
        /\ UNCHANGED <<plugin_manifests, running_plugins, monitors, nops, disk, blackboxai, running>>

\* a reply read that takes every line there is and keeps the last one
InvokeReceiveDrain(c) ==
    LET cr == callers[c]
        pr == procs[cr.proc]
        last == pr.out[Len(pr.out)]
    IN  /\ cr.pc = "inv_recv"
        /\ pr.out # <<>> \/ ~pr.alive
        /\ IF pr.out = <<>>
           THEN /\ SetCaller(c, Returns(cr, NoneLogged("No response received")))
                /\ UNCHANGED procs
           ELSE /\ SetProc(cr.proc, [pr EXCEPT !.out = <<>>])
                /\ IF last.json
                   THEN SetCaller(c, Returns(cr, ReplyRet(JsonLoads(last))))
                   ELSE SetCaller(c, Returns(cr, NoneLogged("Error communicating")))
        /\ UNCHANGED <<plugin_manifests, running_plugins, monitors, nops, disk, blackboxai, running>>

\* response_line = process.stdout.readline().strip() and what follows
InvokeReceive(c) ==
    LET cr == callers[c]
        pr == procs[cr.proc]
    IN  /\ cr.pc = "inv_recv"
        /\ pr.out # <<>> \/ ~pr.alive
        /\ IF pr.out = <<>>
           THEN /\ SetCaller(c, Returns(cr, NoneLogged("No response received")))
                /\ UNCHANGED procs
           ELSE /\ SetProc(cr.proc, [pr EXCEPT !.out = Tail(pr.out)])
                /\ IF Head(pr.out).json
                   THEN SetCaller(c, Returns(cr, ReplyRet(JsonLoads(Head(pr.out)))))
                   ELSE \* except json.JSONDecodeError
                        SetCaller(c, Returns(cr, NoneLogged("Error communicating")))
        /\ UNCHANGED <<plugin_manifests, running_plugins, monitors, nops, disk, blackboxai, running>>

----------------------------------------------------------------------------
(* shutdown *)

\* a caller thread calls shutdown(); for plugin_name in self.running_plugins:
\* the dict iterator is created
Shutdown(c) ==
    /\ Enters(c)
    /\ SetCaller(c, [IdleCaller EXCEPT !.pc = "sd_next", !.op = "shutdown", !.sweep = TRUE,
                                       !.itsize = Len(running_plugins),
                                       !.itleft = Len(running_plugins)])
    /\ UNCHANGED <<plugin_manifests, running_plugins, procs, monitors>>

\* one step of the dict iterator, then self.stop_plugin(plugin_name)
ShutdownNext(c) ==
    LET cr == callers[c]
    IN  /\ cr.pc = "sd_next"
        /\ IF Len(running_plugins) # cr.itsize
           THEN SetCaller(c, Raises(cr, "RuntimeError"))
           ELSE IF cr.itpos >= Len(running_plugins)
           THEN SetCaller(c, Returns(cr, BoolRet(TRUE)))
           ELSE IF cr.itleft = 0
           THEN SetCaller(c, Raises(cr, "RuntimeError"))
           ELSE SetCaller(c, [cr EXCEPT !.pc = "stop_check",
                                        !.name = running_plugins[cr.itpos + 1].name,
                                        !.itpos = cr.itpos + 1,
                                        !.itleft = cr.itleft - 1])
        /\ UNCHANGED <<plugin_manifests, running_plugins, procs, monitors, nops, disk, blackboxai, running>>

----------------------------------------------------------------------------
(* get_plugin_info *)

\* a caller thread calls get_plugin_info(name): the manifest from the cache
\* or from disk, and 'running': plugin_name in self.running_plugins
GetPluginInfo(c, name) ==
    LET cr == [IdleCaller EXCEPT !.op = "info", !.name = name]
    IN  /\ Enters(c)
        /\ CacheManifest(name)
        /\ IF Truthy(ManifestFor(name))
           THEN SetCaller(c, Returns(cr, InfoRet(InRunning(name))))
           ELSE SetCaller(c, Returns(cr, NoneRet))
        /\ UNCHANGED <<running_plugins, procs, monitors>>

----------------------------------------------------------------------------
(* GAssistCore.start: _load_persistent_plugins *)

\* list_plugins() looks up the manifest of every discovered plugin
CacheDiscovered(order) ==
    plugin_manifests' = [n \in Names |->
                           IF \E i \in 1..Len(DiscoverPlugins(order)) :
                                 DiscoverPlugins(order)[i] = n
                           THEN Looked(plugin_manifests, n)[n] ELSE plugin_manifests[n]]

\* the names of the info records list_plugins returns: if info: append
Listed(order) ==
    SelectSeq(DiscoverPlugins(order), LAMBDA n : Truthy(ManifestFor(n)))

\* a loop over the plugins that starts every one of them
NextToStartAll(todo) == todo

\* the plugins left from the first one the loop of _load_persistent_plugins
\* starts: if plugin.get('persistent', False)
RECURSIVE NextToStart(_)
NextToStart(todo) ==
    IF todo = <<>> \/ DiskManifest(Head(todo)).persistent
    THEN todo
    ELSE NextToStart(Tail(todo))

\* a caller thread calls GAssistCore.start(): plugins = list_plugins()
CoreStart(c) ==
    /\ Begins(c)
    /\ running' = TRUE
    /\ \E order \in DirOrders :
          /\ CacheDiscovered(order)
          /\ SetCaller(c, [IdleCaller EXCEPT !.pc = "cs_next", !.op = "core_start",
                                             !.todo = Listed(order)])
    /\ UNCHANGED <<running_plugins, procs, monitors>>

\* the loop of _load_persistent_plugins up to its next start_plugin call and
\* that call up to its spawn; tried collects the names start_plugin has been
\* called with
CoreStartNext(c) ==
    LET cr == callers[c]
        rest == NextToStart(cr.todo)
    IN  /\ cr.pc = "cs_next"
        /\ IF rest = <<>>
           THEN /\ SetCaller(c, [Returns(cr, NoneRet) EXCEPT !.tried = cr.tried])
                /\ UNCHANGED plugin_manifests
           ELSE StartCheck(c, [cr EXCEPT !.name = Head(rest), !.todo = Tail(rest),
                                         !.tried = cr.tried \cup {Head(rest)}])
        /\ UNCHANGED <<running_plugins, procs, monitors, nops, disk, blackboxai, running>>

----------------------------------------------------------------------------
(* GAssistCore.process_command: the result dict a command handler makes of *)
(* what the plugin manager returned                                        *)

\* a result dict: its 'success' value and its 'error' value, "" when the dict
\* has no 'error' key
Result(success, error) == [success |-> success, error |-> error]

\* _handle_start_plugin and _handle_stop_plugin:
\* {'success': success, 'plugin_name': plugin_name}
HandleStartStop(name, ret) ==
    IF name = ""
    THEN Result(FALSE, "plugin_name parameter required")
    ELSE Result(ret.ok, "")

\* _handle_invoke_plugin: result is not None, or an error text
HandleInvokePlugin(name, ret) ==
    IF name = ""
    THEN Result(FALSE, "plugin_name and function_name parameters required")
    ELSE IF ret.kind # "None"
    THEN Result(TRUE, "")
    ELSE Result(FALSE, "Failed to invoke")

\* _handle_shutdown: {'success': True, 'message': ...}
HandleShutdown == Result(TRUE, "")

\* the dict process_command returns to a caller whose manager call has
\* returned
ProcessCommand(cr) ==
    CASE cr.op \in {"start", "stop"} -> HandleStartStop(cr.name, cr.ret)
      [] cr.op = "invoke" -> HandleInvokePlugin(cr.name, cr.ret)
      [] cr.op = "shutdown" -> HandleShutdown
      [] OTHER -> Result(FALSE, "Unknown command")

----------------------------------------------------------------------------

Next ==
    \/ \E c \in Callers, n \in Names : StartPlugin(c, n)
    \/ \E c \in Callers : StartSpawn(c)
    \/ \E c \in Callers, n \in Names : StopPlugin(c, n)
    \/ \E c \in Callers : StopSwept(c)
    \/ \E c \in Callers : StopTerminate(c)
    \/ \E c \in Callers : StopWaitReturns(c)
    \/ \E c \in Callers : StopWaitTick(c)
    \/ \E c \in Callers : StopTimeoutKill(c)
    \/ \E c \in Callers, n \in Names, f \in Functions, a \in Params : InvokePlugin(c, n, f, a)
    \/ \E c \in Callers : InvokeSend(c)
    \/ \E c \in Callers : InvokeReceive(c)
    \/ \E c \in Callers : Shutdown(c)
    \/ \E c \in Callers : ShutdownNext(c)
    \/ \E c \in Callers, n \in Names : GetPluginInfo(c, n)
    \/ \E c \in Callers : CoreStart(c)
    \/ \E c \in Callers : CoreStartNext(c)
    \/ \E p \in Pids : PluginReply(p)
    \/ \E p \in Pids : PluginExit(p)
    \/ \E p \in Pids : PluginDie(p)
    \/ \E p \in Pids : MonitorPoll(p)
    \/ \E p \in Pids : MonitorRead(p)
    \/ \E p \in Pids : MonitorError(p)
    \/ \E p \in Pids : MonitorCleanup(p)

Spec == Init /\ [][Next]_vars

----------------------------------------------------------------------------
(* Fairness: the operating system schedules every thread and every child,  *)
(* and delivers every signal.  A monitor's read error, a child's exit on   *)
(* its own and a caller's next call are things that may happen, not things *)
(* that must.                                                              *)

Fairness ==
    /\ \A c \in Callers :
          /\ WF_vars(StartSpawn(c))
          /\ WF_vars(StopSwept(c))
          /\ WF_vars(StopTerminate(c))
          /\ WF_vars(StopWaitReturns(c))
          /\ WF_vars(StopWaitTick(c))
          /\ WF_vars(StopTimeoutKill(c))
          /\ WF_vars(InvokeSend(c))
          /\ WF_vars(InvokeReceive(c))
          /\ WF_vars(ShutdownNext(c))
          /\ WF_vars(CoreStartNext(c))
    /\ \A p \in Pids :
          /\ WF_vars(PluginReply(p))
          /\ WF_vars(PluginDie(p))
          /\ WF_vars(MonitorPoll(p))
          /\ WF_vars(MonitorRead(p))
          /\ WF_vars(MonitorCleanup(p))

FairSpec == Spec /\ Fairness

----------------------------------------------------------------------------
(* The manifest store: load_plugin_manifest, discover_plugins and          *)
(* list_plugins as calls of their own, and the plugins directory changing  *)
(* under the running manager                                               *)

\* a manifest.json written anew for plugin name
Rewritten(name) ==
    [executable |-> "new.exe", functions |-> {"echo", "nope"},
     persistent |-> ~InstalledManifest(name).persistent, present |-> TRUE]

\* the names whose entry in plugins_dir changes: an installed plugin and a
\* name that was not there
Rewritable == {"alpha", "ghost"}

\* what may be put under a name in plugins_dir
Entries(name) ==
    {NoEntry, PlainFile, BareDir, BadPluginDir, PluginDir(EmptyObject),
     PluginDir(Rewritten(name))}

\* somebody replaces the entry of name in plugins_dir
DiskWrite(name, entry) ==
    /\ disk.root
    /\ disk.writes < MaxDiskWrites
    /\ disk.entry[name] # entry
    /\ disk' = [disk EXCEPT !.entry[name] = entry, !.writes = disk.writes + 1]
    /\ UNCHANGED <<plugin_manifests, running_plugins, procs, monitors, callers, nops,
                   blackboxai, running>>

\* somebody removes plugins_dir with all that is in it
DiskRemoveRoot ==
    /\ disk.root
    /\ disk.writes < MaxDiskWrites
    /\ disk' = [root |-> FALSE, writes |-> disk.writes + 1,
                entry |-> [n \in Names |-> NoEntry]]
    /\ UNCHANGED <<plugin_manifests, running_plugins, procs, monitors, callers, nops,
                   blackboxai, running>>

\* a caller thread calls load_plugin_manifest(name)
LoadPluginManifest(c, name) ==
    LET cr == [IdleCaller EXCEPT !.op = "load", !.name = name]
    IN  /\ Enters(c)
        /\ plugin_manifests' = Loaded(plugin_manifests, name)
        /\ IF DiskManifest(name).present
           THEN SetCaller(c, Returns(cr, ManifestRet(DiskManifest(name))))
           ELSE SetCaller(c, Returns(cr, NoneLogged("Failed to load manifest")))
        /\ UNCHANGED <<running_plugins, procs, monitors>>

\* a caller thread calls discover_plugins()
Discovers(c) ==
    /\ Enters(c)
    /\ \E order \in DirOrders :
          SetCaller(c, Returns([IdleCaller EXCEPT !.op = "discover"],
                               NamesRet(DiscoverPlugins(order))))
    /\ UNCHANGED <<plugin_manifests, running_plugins, procs, monitors>>

\* the dict get_plugin_info makes of a manifest
Info(name, manifest) ==
    [name |-> name, functions |-> manifest.functions,
     persistent |-> manifest.persistent, running |-> InRunning(name)]

\* list_plugins when iterdir lists the entries in this order
ListPlugins(order) ==
    [i \in 1..Len(Listed(order)) |->
        Info(Listed(order)[i], ManifestFor(Listed(order)[i]))]

\* a caller thread calls list_plugins()
Lists(c) ==
    /\ Enters(c)
    /\ \E order \in DirOrders :
          /\ CacheDiscovered(order)
          /\ SetCaller(c, Returns([IdleCaller EXCEPT !.op = "list"],
                                  ListRet(ListPlugins(order))))
    /\ UNCHANGED <<running_plugins, procs, monitors>>

StoreNext ==
    \/ \E n \in Rewritable : \E e \in Entries(n) : DiskWrite(n, e)
    \/ DiskRemoveRoot
    \/ \E c \in Callers, n \in Names : LoadPluginManifest(c, n)
    \/ \E c \in Callers : Discovers(c)
    \/ \E c \in Callers : Lists(c)
    \/ \E c \in Callers, n \in Names : GetPluginInfo(c, n)
    \/ \E c \in Callers, n \in Names : StartPlugin(c, n)
    \/ \E c \in Callers : StartSpawn(c)

\* the manager with its manifest store, over a plugins directory that changes
StoreSpec == Init /\ [][StoreNext]_vars

----------------------------------------------------------------------------
(* The example plugin: main() of plugins/examples/blackboxai/plugin.py     *)

\* the tool calls a request may hold: the three commands of the plugin, a
\* function it does not have, and a call without 'func'
ToolCalls == {[func |-> f] : f \in {"initialize", "shutdown", "query_blackboxai",
                                     "bogus", NoFunc}}

\* tool_calls lists of up to two calls
CallLists ==
    {<<>>} \cup {<<a>> : a \in ToolCalls} \cup {<<a, b>> : a, b \in ToolCalls}

\* what read_command may come back with: None (the text was no JSON, or the
\* read failed), a JSON value that is no container (a number), or an object,
\* with or without 'tool_calls', with or without a non-empty 'messages'
Inputs ==
    {[kind |-> "None", has_calls |-> FALSE, tool_calls |-> <<>>, messages |-> FALSE],
     [kind |-> "number", has_calls |-> FALSE, tool_calls |-> <<>>, messages |-> FALSE],
     [kind |-> "object", has_calls |-> FALSE, tool_calls |-> <<>>, messages |-> FALSE]}
    \cup {[kind |-> "object", has_calls |-> TRUE, tool_calls |-> t, messages |-> m] :
             t \in CallLists, m \in BOOLEAN}

\* write_response(response) by main() (final) or by a command handler
Written(st, response, final) ==
    [st EXCEPT !.out = Append(st.out, [final |-> final, response |-> response])]

\* execute_initialize_command: the key file holds a key (key) or not
ExecuteInitializeCommand(st, key) ==
    [st EXCEPT !.API_KEY = IF key THEN TRUE ELSE st.API_KEY,
               !.response = GenerateSuccessResponse]

\* execute_shutdown_command
ExecuteShutdownCommand(st) == [st EXCEPT !.response = GenerateSuccessResponse]

\* execute_query_blackboxai_command, no config file being there: without a
\* key it writes a message and reports success, without context it fails,
\* else it streams the answer as a message and reports success
ExecuteQueryCommand(st, input) ==
    IF ~st.API_KEY
    THEN [Written(st, GenerateMessageResponse("API key missing"), FALSE)
            EXCEPT !.response = GenerateSuccessResponse]
    ELSE IF ~input.messages
    THEN [st EXCEPT !.response = GenerateFailureResponse("No context provided")]
    ELSE [Written(st, GenerateMessageResponse("chunk"), FALSE)
            EXCEPT !.response = GenerateSuccessResponse]

\* the body of the loop over tool_calls for one tool call
RunToolCall(st, tool_call, input, key) ==
    IF tool_call.func = NoFunc
    THEN [st EXCEPT !.tool_call = tool_call,
                    !.response = GenerateFailureResponse("Malformed input.")]
    ELSE LET s1 == [st EXCEPT !.tool_call = tool_call, !.cmd = tool_call.func]
         IN  CASE tool_call.func = "initialize" -> ExecuteInitializeCommand(s1, key)
               [] tool_call.func = "shutdown" -> ExecuteShutdownCommand(s1)
               [] tool_call.func = "query_blackboxai" -> ExecuteQueryCommand(s1, input)
               [] OTHER -> [s1 EXCEPT !.response = GenerateFailureResponse("Unknown command")]

\* for tool_call in tool_calls
RECURSIVE RunToolCalls(_, _, _, _)
RunToolCalls(st, tool_calls, input, key) ==
    IF tool_calls = <<>>
    THEN st
    ELSE RunToolCalls(RunToolCall(st, Head(tool_calls), input, key),
                      Tail(tool_calls), input, key)

\* the example plugin is started: main() up to its loop
PluginMain ==
    /\ blackboxai.pc = "off"
    /\ blackboxai' = [blackboxai EXCEPT !.pc = "read"]
    /\ UNCHANGED <<plugin_manifests, running_plugins, procs, monitors, callers, nops, disk, running>>

\* one turn of the loop of main() from read_command to just before its
\* write_response: on None it logs and goes back to the read; on a JSON value
\* that is no container the test 'tool_calls' in input raises TypeError,
\* which nothing catches
ReadCommand(input, key) ==
    LET st == [blackboxai EXCEPT !.reads = blackboxai.reads + 1, !.out = <<>>,
                                 !.response = NoneResponse]
    IN  /\ blackboxai.pc = "read"
        /\ blackboxai.reads < MaxCommands
        /\ blackboxai' =
              CASE input.kind = "None" -> st
                [] input.kind = "number" -> [st EXCEPT !.pc = "crashed"]
                [] input.kind = "object" /\ ~input.has_calls ->
                      [st EXCEPT !.pc = "write",
                                 !.response = GenerateFailureResponse("Malformed input.")]
                [] OTHER ->
                      [RunToolCalls(st, input.tool_calls, input, key) EXCEPT !.pc = "write"]
        /\ UNCHANGED <<plugin_manifests, running_plugins, procs, monitors, callers, nops,
                       disk, running>>

\* write_response(response); if cmd == SHUTDOWN_COMMAND: break
WriteResponse ==
    /\ blackboxai.pc = "write"
    /\ blackboxai' = [Written(blackboxai, blackboxai.response, TRUE)
                        EXCEPT !.pc = IF blackboxai.cmd = "shutdown" THEN "stopped"
                                      ELSE "read"]
    /\ UNCHANGED <<plugin_manifests, running_plugins, procs, monitors, callers, nops,
                   disk, running>>

PluginNext ==
    \/ PluginMain
    \/ \E input \in Inputs, key \in BOOLEAN : ReadCommand(input, key)
    \/ WriteResponse

\* the example plugin on its own, fed by whoever holds its pipes
PluginSpec == Init /\ [][PluginNext]_vars

----------------------------------------------------------------------------
(* GAssistCore.stop, called more than once: by the shutdown command or the *)
(* signal handler, and then by the finally block of main()                 *)

\* the core after start() and a start_plugin("beta"): list_plugins has
\* cached every manifest, the persistent plugin alpha and beta are running
Started ==
    /\ plugin_manifests = [n \in Names |-> InstalledManifest(n)]
    /\ running_plugins = <<Entry("alpha", 1), Entry("beta", 2)>>
    /\ procs = <<NewProc("alpha"), NewProc("beta")>>
    /\ monitors = <<"poll", "poll">>
    /\ callers = [c \in Callers |-> IdleCaller]
    /\ nops = 0
    /\ disk = InstalledDisk
    /\ blackboxai = NotStarted
    /\ running = TRUE

\* the main thread calls GAssistCore.stop(): self.running = False, then
\* plugin_manager.shutdown(); an exception that left the call before does not
\* keep the finally block of main() from calling it again
CoreStop(c) ==
    /\ c = "c1"
    /\ callers[c].pc \in {"idle", "done", "fault"}
    /\ nops < MaxOps
    /\ nops' = nops + 1
    /\ running' = FALSE
    /\ SetCaller(c, [IdleCaller EXCEPT !.pc = "sd_next", !.op = "shutdown", !.sweep = TRUE,
                                       !.itsize = Len(running_plugins),
                                       !.itleft = Len(running_plugins)])
    /\ UNCHANGED <<plugin_manifests, running_plugins, procs, monitors, disk, blackboxai>>

StopNext ==
    \/ \E c \in Callers : CoreStop(c)
    \/ \E c \in Callers : ShutdownNext(c)
    \/ \E c \in Callers : StopSwept(c)
    \/ \E c \in Callers : StopTerminate(c)
    \/ \E c \in Callers : StopWaitReturns(c)
    \/ \E c \in Callers : StopWaitTick(c)
    \/ \E c \in Callers : StopTimeoutKill(c)
    \/ \E p \in Pids : PluginExit(p)
    \/ \E p \in Pids : PluginDie(p)
    \/ \E p \in Pids : MonitorPoll(p)
    \/ \E p \in Pids : MonitorRead(p)
    \/ \E p \in Pids : MonitorError(p)
    \/ \E p \in Pids : MonitorCleanup(p)

\* the started core being stopped, once and again
StopSpec == Started /\ [][StopNext]_vars

----------------------------------------------------------------------------
(* Properties *)

Live(p) == procs[p].alive

\* the pid running_plugins holds for name, 0 if none
Registered(name) == IF InRunning(name) THEN Lookup(name) ELSE 0

\* C1: at most one live child spawned by the manager exists per plugin name,
\* and every live spawned child is the process recorded under its name in
\* running_plugins.
C1_OneLiveChildPerName ==
    /\ \A p, q \in Spawned :
          Live(p) /\ Live(q) /\ procs[p].name = procs[q].name => p = q
    /\ \A p \in Spawned : Live(p) => Registered(procs[p].name) = p

\* C2: whenever stop_plugin(name) returns True after stopping a process, name
\* is absent from running_plugins at that moment.
C2_StoppedIsAbsent ==
    [][\A c \in Callers :
          /\ StopWaitReturns(c) \/ StopTimeoutKill(c)
          /\ callers'[c] = Returns(callers[c], BoolRet(TRUE))
          => ~InRunning(callers[c].name)']_vars

\* C3: when the plugin has written its reply line for the request of an
\* invoke_plugin call, a JSON text, the call returns the parsed object of that
\* line: the echo of the request it sent.
C3_InvokeReturnsItsReply ==
    [][\A c \in Callers :
          InvokeReceive(c) /\ callers[c].answered /\ ~MalformedReplies(callers[c].name)
          => callers'[c].ret = ReplyRet(callers[c].command)]_vars

\* C4: invoke_plugin never ends in an uncaught fault; it returns a failure
\* when the monitor has removed the plugin's entry between the running
\* check and the lookup of the process for sending.
C4_InvokeNeverFaults ==
    \A c \in Callers : callers[c].op = "invoke" => callers[c].pc # "fault"

\* C5: the sweep of shutdown() is never aborted by a stop or by a monitor
\* removing an entry while it iterates: with no other caller thread at work,
\* shutdown() does not end in an exception.
C5_SweepNeverAborts ==
    \A c \in Callers :
        /\ callers[c].op = "shutdown"
        /\ \A d \in Callers \ {c} : callers[d].pc = "idle"
        => callers[c].pc # "fault"

\* C6: get_plugin_info never reports a plugin as running whose process has
\* already exited.
C6_ReportedRunningIsLive ==
    [][\A c \in Callers, n \in Names :
          GetPluginInfo(c, n) /\ callers'[c].ret = InfoRet(TRUE)
          => Live(Lookup(n))]_vars

\* the child p is dead and running_plugins does not hold it
Gone(p) == ~Live(p) /\ Registered(procs[p].name) # p

\* stop_plugin has sent the termination signal to child p, which ignores it,
\* and is waiting for it
WaitingOnStubborn(c, p) ==
    /\ p \in Spawned
    /\ callers[c].pc = "stop_wait" /\ callers[c].proc = p
    /\ Live(p) /\ IgnoresTerm(procs[p].name)

\* the kill() of the stop_plugin of caller c has raised OSError
KillFailed(c) == callers[c].pc = "fault" /\ callers[c].ret = Fault("OSError")

\* C7: a child is sent the kill signal only by a stop_plugin whose wait on it
\* has lasted the whole grace period with the child still there; and a child
\* that does not exit on the termination signal of stop_plugin is in the end
\* dead and out of running_plugins, unless the operating system refuses the
\* kill.
C7_ForcedKillAfterGrace ==
    /\ [][\A p \in Pids :
             p \in Spawned /\ procs[p].sig # "kill" /\ procs'[p].sig = "kill"
             => \E c \in Callers :
                   /\ callers[c].pc = "stop_wait" /\ callers[c].proc = p
                   /\ callers[c].waited = GracePeriod
                   /\ Live(p)]_vars
    /\ \A c \in Callers, p \in Pids :
          WaitingOnStubborn(c, p)
             ~> \/ p \in Spawned /\ procs[p].sig = "kill" /\ Gone(p)
                \/ KillFailed(c)

\* a child that ignored the termination signal has been killed by stop_plugin
\* after the grace period, is dead, and its entry is gone
C7_Witness ==
    \E p \in Spawned :
        /\ procs[p].sig = "kill" /\ IgnoresTerm(procs[p].name)
        /\ Gone(p) /\ monitors[p] = "done"
        /\ \E c \in Callers : callers[c] = Returns([IdleCaller EXCEPT !.op = "stop",
                                             !.name = procs[p].name], BoolRet(TRUE))

\* C8: stop_plugin returns True only when the target process has exited, on
\* the graceful path and on the forced-kill path alike.
C8_StopTrueMeansExited ==
    [][\A c \in Callers :
          (StopWaitReturns(c) \/ StopTimeoutKill(c)) /\ ~KillFailed(c)'
          => ~procs'[callers[c].proc].alive]_vars

\* C9: start_plugin is idempotent.  A start_plugin(name) that spawns returns
\* True with exactly one new child, registered under name, and one monitor
\* for it; a start_plugin(name) on a name that is in running_plugins returns
\* True and changes nothing: no child, no monitor, no entry, no manifest.
C9_StartIdempotent ==
    [][\A c \in Callers :
          /\ StartSpawn(c) /\ callers'[c] = Returns(callers[c], BoolRet(TRUE))
                => /\ Len(procs') = Len(procs) + 1
                   /\ Len(monitors') = Len(procs')
                   /\ SubSeq(procs', 1, Len(procs)) = procs
                   /\ Registered(callers[c].name)' = Len(procs')
                   /\ procs'[Len(procs')] = NewProc(callers[c].name)
          /\ \A n \in Names :
                StartPlugin(c, n) /\ InRunning(n)
                => /\ callers'[c] = Returns([IdleCaller EXCEPT !.op = "start", !.name = n],
                                            BoolRet(TRUE))
                   /\ UNCHANGED <<running_plugins, plugin_manifests, procs, monitors>>]_vars

\* one thread has made two calls, the second a start_plugin("alpha") that
\* returned True, and there is one child of alpha, the registered one
C9_Witness ==
    /\ callers["c1"] = Returns([IdleCaller EXCEPT !.op = "start", !.name = "alpha"], BoolRet(TRUE))
    /\ callers["c2"] = IdleCaller
    /\ nops = 2
    /\ procs = <<NewProc("alpha")>>
    /\ running_plugins = <<Entry("alpha", 1)>>
    /\ Len(monitors) = 1

\* C10: stop_plugin(name) with name not in running_plugins returns True and
\* leaves running_plugins, plugin_manifests and every process unchanged (no
\* signal is sent); so does the stop of such a name inside shutdown().
C10_StopNotRunningIsNoOp ==
    [][\A c \in Callers :
          /\ \A n \in Names :
                StopPlugin(c, n) /\ ~InRunning(n)
                => /\ callers'[c] = Returns([IdleCaller EXCEPT !.op = "stop", !.name = n],
                                            BoolRet(TRUE))
                   /\ UNCHANGED <<running_plugins, plugin_manifests, procs, monitors>>
          /\ StopSwept(c) /\ ~InRunning(callers[c].name)
                => /\ callers'[c].pc = "sd_next"
                   /\ UNCHANGED <<running_plugins, plugin_manifests, procs, monitors>>]_vars

\* a stop of a plugin that is not running has returned True next to an
\* untouched live process of another plugin
C10_Witness ==
    /\ callers["c1"].pc = "done" /\ callers["c1"].op = "stop"
    /\ callers["c1"].name = "beta" /\ callers["c1"].ret = BoolRet(TRUE)
    /\ Len(procs) = 1 /\ procs[1] = NewProc("alpha")
    /\ running_plugins = <<Entry("alpha", 1)>>

----------------------------------------------------------------------------
(* Properties of invoke_plugin, the monitor and the failure paths *)

\* the function list of the manifest of plugin name does not hold fn
Absent(name, fn) == fn \notin DiskManifest(name).functions

\* the lines in the two pipes of every child
Pipes == [p \in Spawned |-> <<procs[p].inbox, procs[p].out>>]

\* C11: invoke_plugin(name, fn, params) with fn absent from the function list
\* of name's manifest returns None, and no step of the call writes to an input
\* pipe or reads from an output pipe: the call returns at once or goes to the
\* spawn of a lazy start, and after that spawn it returns without going on to
\* the send.
C11_AbsentFunctionNoPipeIO ==
    [][\A c \in Callers :
          /\ \A n \in Names, f \in Functions, a \in Params :
                InvokePlugin(c, n, f, a) /\ Absent(n, f)
                => /\ callers'[c].pc \in {"done", "start_spawn"}
                   /\ callers'[c].pc = "done" => callers'[c].ret.kind = "None"
                   /\ Pipes' = Pipes
          /\ (StartSpawn(c) /\ callers[c].lazy
                /\ Absent(callers[c].name, FunctionName(callers[c].command)))
                => /\ callers'[c].pc = "done" /\ callers'[c].ret.kind = "None"
                   /\ procs' # procs
                         => callers'[c].ret = NoneLogged("Function not found")
                   /\ \A p \in Spawned : Pipes'[p] = Pipes[p]
                   /\ \A p \in Spawned' \ Spawned : Pipes'[p] = <<(<<>>), (<<>>)>>]_vars

\* one invoke_plugin has been made, it started alpha and returned None, and
\* alpha is live with nothing ever written to or read from its pipes
C11_Witness ==
    /\ nops = 1
    /\ callers["c1"] = Returns([IdleCaller EXCEPT !.op = "invoke", !.name = "alpha"],
                               NoneLogged("Function not found"))
    /\ procs = <<NewProc("alpha")>>
    /\ running_plugins = <<Entry("alpha", 1)>>
    /\ monitors = <<"poll">>

\* C12: invoke_plugin on a plugin that is not in running_plugins first attempts
\* start_plugin.  If the start fails, at its checks or at the spawn, the invoke
\* returns None and its steps leave running_plugins, the children and their
\* pipes as they were.  If the start succeeds, the invoke goes on to the send
\* with the new child registered, and the send writes the request to the input
\* pipe of that child when it is still the live process registered under the
\* name.
C12_LazyStart ==
    [][\A c \in Callers :
          /\ \A n \in Names, f \in Functions, a \in Params :
                InvokePlugin(c, n, f, a) /\ ~InRunning(n)
                => \/ callers'[c].pc = "start_spawn" /\ callers'[c].lazy
                   \/ /\ callers'[c] = Returns(callers'[c], NoneRet)
                      /\ UNCHANGED <<running_plugins, procs, monitors>>
          /\ (StartSpawn(c) /\ callers[c].lazy /\ procs' = procs)
                => /\ callers'[c] = Returns(callers[c], NoneRet)
                   /\ UNCHANGED <<running_plugins, monitors>>
          /\ (StartSpawn(c) /\ callers[c].lazy /\ procs' # procs
                /\ ~Absent(callers[c].name, FunctionName(callers[c].command)))
                => /\ callers'[c].pc = "inv_send"
                   /\ callers'[c].proc = Len(procs')
                   /\ Registered(callers[c].name)' = Len(procs')
          /\ (InvokeSend(c) /\ callers[c].proc # 0
                /\ Registered(callers[c].name) = callers[c].proc
                /\ Live(callers[c].proc))
                => /\ callers'[c].pc = "inv_recv"
                   /\ callers'[c].proc = callers[c].proc
                   /\ procs'[callers[c].proc].inbox
                         = Append(procs[callers[c].proc].inbox,
                                  JsonLine(callers[c].command, c))]_vars

\* an invoke_plugin on "ghost" has returned None with nothing spawned, and
\* an invoke_plugin on alpha, which was not running, has started it and
\* written its request to the input pipe of the new child
C12_Witness ==
    /\ nops = 2
    /\ callers["c1"] = Returns([IdleCaller EXCEPT !.op = "invoke", !.name = "ghost"], NoneRet)
    /\ callers["c2"].pc = "inv_recv" /\ callers["c2"].proc = 1
    /\ running_plugins = <<Entry("alpha", 1)>>
    /\ Len(procs) = 1 /\ Live(1)
    /\ procs[1].inbox = <<JsonLine(callers["c2"].command, "c2")>>

\* the caller has written a request to child p and has not yet read a reply
MidRequest(c, p) == callers[c].pc = "inv_recv" /\ callers[c].proc = p

\* C13: two invoke_plugin calls on the same plugin never overlap on its
\* pipes: while one caller is between the write of its request and the read
\* of its reply, no other caller is between its write and its read on the
\* same child.
C13_InvokesNeverOverlap ==
    \A c, d \in Callers, p \in Spawned :
        MidRequest(c, p) /\ MidRequest(d, p) => c = d

\* the reply read of caller c can return: a line is there, or the pipe of its
\* own child is at EOF
OwnReplyReadable(c) ==
    procs[callers[c].proc].out # <<>> \/ ~Live(callers[c].proc)

\* C14: operations on one plugin never wait on another plugin.  At every
\* position inside start_plugin, stop_plugin, invoke_plugin and shutdown the
\* next step of the caller can be taken whatever the other callers, the other
\* children and the monitors are doing; the one step that waits, the read of
\* the reply, waits for the caller's own child alone.
C14_NoWaitOnOtherPlugin ==
    \A c \in Callers :
        /\ callers[c].pc = "start_spawn" => ENABLED StartSpawn(c)
        /\ callers[c].pc = "stop_check" => ENABLED StopSwept(c)
        /\ callers[c].pc = "stop_term" => ENABLED StopTerminate(c)
        /\ callers[c].pc = "stop_wait"
              => ENABLED (StopWaitReturns(c) \/ StopWaitTick(c) \/ StopTimeoutKill(c))
        /\ callers[c].pc = "inv_send" => ENABLED InvokeSend(c)
        /\ callers[c].pc = "sd_next" => ENABLED ShutdownNext(c)
        /\ callers[c].pc = "inv_recv"
              => (ENABLED InvokeReceive(c) <=> OwnReplyReadable(c))

\* start_plugin("beta") is at its spawn while an invoke on alpha is waiting
\* for alpha's reply and alpha's monitor is waiting in its read
C14_Witness ==
    /\ MidRequest("c1", 1) /\ ~OwnReplyReadable("c1")
    /\ procs[1].name = "alpha" /\ monitors[1] = "read"
    /\ callers["c2"].pc = "start_spawn" /\ callers["c2"].name = "beta"
    /\ callers["c2"].op = "start"
    /\ ENABLED StartSpawn("c2")

\* C15: whenever a child that running_plugins holds has exited (on its own,
\* or after terminate or kill), its entry is eventually removed; and a monitor
\* that has hit an error while reading goes on to its cleanup, which removes
\* the entry of its child.
C15_ExitedIsRemoved ==
    \A p \in Pids :
        /\ (p \in Spawned /\ ~Live(p))
              ~> (p \in Spawned /\ Registered(procs[p].name) # p)
        /\ (p \in Spawned /\ monitors[p] = "cleanup")
              ~> (p \in Spawned /\ monitors[p] = "done" /\ Registered(procs[p].name) # p)

\* alpha has exited on its own and its monitor has removed its entry; the
\* monitor of beta has ended on a read error and removed the entry of beta,
\* which is still alive
C15_Witness ==
    /\ Len(procs) = 2
    /\ procs[1].name = "alpha" /\ ~Live(1) /\ procs[1].sig = "none"
    /\ procs[2].name = "beta" /\ Live(2)
    /\ monitors = <<"done", "done">>
    /\ running_plugins = <<>>

\* the reply read of caller c gets no line (EOF) or a line that is no JSON
NoUsableReply(c) ==
    \/ procs[callers[c].proc].out = <<>>
    \/ ~Head(procs[callers[c].proc].out).json

\* C16: when the line read as the reply is not valid JSON, or the read returns
\* empty at EOF, invoke_plugin returns None, it does not fault, and
\* running_plugins and plugin_manifests are as they were.
C16_BadReplyIsFailure ==
    [][\A c \in Callers :
          InvokeReceive(c) /\ NoUsableReply(c)
          => /\ callers'[c].pc = "done"
             /\ callers'[c].ret.kind = "None"
             /\ UNCHANGED <<running_plugins, plugin_manifests>>]_vars

\* an invoke on beta has read a reply line that is no JSON and returned None,
\* beta still running and registered; an invoke on alpha has found EOF after
\* alpha exited and returned None
C16_Witness ==
    /\ callers["c1"] = Returns([IdleCaller EXCEPT !.op = "invoke", !.name = "beta"],
                               NoneLogged("Error communicating"))
    /\ callers["c2"] = Returns([IdleCaller EXCEPT !.op = "invoke", !.name = "alpha"],
                               NoneLogged("No response received"))
    /\ InRunning("beta") /\ Live(Lookup("beta"))
    /\ plugin_manifests["beta"] = DiskManifest("beta")

\* start_plugin(name) cannot get to the spawn: the manifest cannot be loaded,
\* it has no executable field, or the executable is not in the plugin's
\* directory
CannotSpawn(name) ==
    \/ ~DiskManifest(name).present
    \/ DiskManifest(name).executable = ""
    \/ ~ExeExists(name)

\* C17: start_plugin returns False when the manifest cannot be loaded, has no
\* executable field, the executable does not exist, or the spawn fails.  In
\* the first three cases it returns at once with no spawn attempted; after a
\* failed spawn it returns without another attempt; and in every case no
\* child, no entry of running_plugins and no monitor is added.
C17_StartFailures ==
    [][\A c \in Callers :
          /\ \A n \in Names :
                StartPlugin(c, n) /\ ~InRunning(n) /\ CannotSpawn(n)
                => /\ callers'[c] = Returns([IdleCaller EXCEPT !.op = "start", !.name = n],
                                            BoolRet(FALSE))
                   /\ UNCHANGED <<running_plugins, procs, monitors>>
          /\ (StartSpawn(c) /\ ~callers[c].lazy /\ procs' = procs)
                => /\ callers[c].op = "start"
                         => callers'[c] = Returns(callers[c], BoolRet(FALSE))
                   /\ callers'[c].pc # "start_spawn"
                   /\ UNCHANGED <<running_plugins, monitors>>
          /\ (callers'[c] # callers[c] /\ callers'[c].op = "start"
                /\ callers'[c].ret = BoolRet(FALSE))
                => UNCHANGED <<running_plugins, procs, monitors>>]_vars

\* start_plugin("nofile") has returned False on the missing executable and
\* start_plugin("alpha") has returned False on a failed spawn; there is no
\* child, no entry and no monitor
C17_Witness ==
    /\ callers["c1"] = Returns([IdleCaller EXCEPT !.op = "start", !.name = "nofile"],
                               BoolRet(FALSE))
    /\ callers["c2"] = Returns([IdleCaller EXCEPT !.op = "start", !.name = "alpha"],
                               BoolRet(FALSE))
    /\ procs = <<>> /\ running_plugins = <<>> /\ monitors = <<>>

\* the step of stop_plugin by caller c in which terminate() or kill() raises
\* OSError
SignalFails(c) ==
    \/ StopTerminate(c) /\ InRunning(callers[c].name) /\ callers'[c].pc # "stop_wait"
    \/ StopTimeoutKill(c) /\ procs' = procs

\* C18: when terminate() or kill() fails with an OS error, stop_plugin returns
\* False to its caller (it goes on with the sweep when shutdown() called it)
\* and the entry of the plugin is out of running_plugins when it returns.
C18_FailedStopPurgesEntry ==
    [][\A c \in Callers :
          SignalFails(c)
          => /\ callers'[c] = StopReturns(callers[c], FALSE)
             /\ ~InRunning(callers[c].name)']_vars

\* the plugins discover_plugins finds: the directories with a manifest.json
Discovered == {n \in Names : DiskManifest(n).present}

\* C19: when GAssistCore.start() returns, start_plugin has been called for
\* every discovered plugin whose manifest has persistent = true and for no
\* other plugin; no failure of one of these starts ends start() early.
C19_PersistentPluginsStarted ==
    /\ [](\A c \in Callers : callers[c].op = "core_start" => callers[c].pc # "fault")
    /\ [][\A c \in Callers :
             CoreStartNext(c) /\ callers'[c].pc = "done"
             => callers'[c].tried = {n \in Discovered : DiskManifest(n).persistent}]_vars

\* GAssistCore.start() has returned after calling start_plugin for alpha and
\* for noexe, both of which failed (the spawn of alpha, the manifest of
\* noexe): whichever came first, its failure did not keep the other from
\* being tried; beta and nofile were listed and not started
C19_Witness ==
    /\ nops = 1
    /\ callers["c1"].pc = "done" /\ callers["c1"].op = "core_start"
    /\ callers["c1"].tried = {"alpha", "noexe"}
    /\ procs = <<>> /\ running_plugins = <<>>
    /\ plugin_manifests["beta"].present /\ plugin_manifests["nofile"].present

\* C20: every registry operation reached through process_command returns a
\* result with a success flag, and every result with success = false carries
\* an error string, also when start_plugin or stop_plugin has failed inside
\* the plugin manager.
C20_FailureCarriesError ==
    \A c \in Callers :
        callers[c].pc = "done" /\ callers[c].op \in {"start", "stop", "invoke", "shutdown"}
        => /\ ProcessCommand(callers[c]).success \in BOOLEAN
           /\ ~ProcessCommand(callers[c]).success => ProcessCommand(callers[c]).error # ""

----------------------------------------------------------------------------
(* Properties of the round trip, the manifests and the example plugin *)

\* C21: when stop_plugin has ended the process of a plugin while an
\* invoke_plugin on it is waiting for the reply, the waiting invoke returns in
\* the end; with nothing left to read it returns the no-reply failure; and a
\* waiting invoke is released by nothing else than a line or the end of its
\* own child's output.
C21_StopUnblocksInvoke ==
    /\ \A c \in Callers, p \in Pids :
          (p \in Spawned /\ MidRequest(c, p) /\ procs[p].sig # "none" /\ ~Live(p))
             ~> ~MidRequest(c, p)
    /\ [][\A c \in Callers :
             callers[c].pc = "inv_recv" /\ callers'[c].pc # "inv_recv"
             => /\ OwnReplyReadable(c)
                /\ procs[callers[c].proc].out = <<>>
                      => callers' = [callers EXCEPT ![c] =
                            Returns(callers[c], NoneLogged("No response received"))]]_vars

\* an invoke on alpha has returned the no-reply failure after the
\* stop_plugin of the other caller has terminated alpha
C21_Witness ==
    /\ callers["c1"].op = "invoke" /\ callers["c1"].pc = "done"
    /\ callers["c1"].ret = NoneLogged("No response received")
    /\ callers["c1"].name = "alpha"
    /\ Len(procs) = 1 /\ procs[1].name = "alpha"
    /\ procs[1].sig = "term" /\ ~Live(1)
    /\ callers["c2"].op = "stop" /\ callers["c2"].name = "alpha"
    /\ callers["c2"].pc = "stop_wait" /\ callers["c2"].proc = 1

\* C22: an invoke_plugin that has written its request returns in the end,
\* once the plugin has written the reply line for the request or has exited.
C22_InvokeReturns ==
    \A c \in Callers, p \in Pids :
        (p \in Spawned /\ MidRequest(c, p) /\ (callers[c].answered \/ ~Live(p)))
           ~> ~MidRequest(c, p)

\* C26: the request of invoke_plugin(name, fn, params) is an envelope whose
\* tool_calls list holds exactly one call, with func = fn and properties =
\* params, the empty object standing for params that are None or empty; the
\* call keeps that command until the send, which writes it as one line.
C26_RequestEnvelope ==
    /\ [][\A c \in Callers, name \in Names, fn \in Functions, params \in Params :
             InvokePlugin(c, name, fn, params) /\ callers'[c].pc # "done"
             => LET tool_calls == callers'[c].command.tool_calls
                IN  /\ Len(tool_calls) = 1
                    /\ tool_calls[1].func = fn
                    /\ tool_calls[1].properties
                          = IF params = "None" \/ params = "{}" THEN "{}" ELSE params]_vars
    /\ [][\A c \in Callers :
             callers[c].op = "invoke" /\ callers[c].pc \notin {"done", "fault"}
             /\ callers'[c].pc \notin {"done", "fault"}
             => callers'[c].command = callers[c].command]_vars
    /\ [][\A c \in Callers :
             callers[c].pc = "inv_send" /\ callers'[c].pc = "inv_recv"
             => LET p == callers'[c].proc
                IN  procs'[p].inbox = Append(procs[p].inbox,
                        [json |-> TRUE, tool_calls |-> callers[c].command.tool_calls,
                         req |-> c])]_vars

\* alpha has in its input one request made of params {a:1} and one made of
\* params that were None or empty
C26_Witness ==
    /\ Len(procs) = 1 /\ procs[1].name = "alpha"
    /\ Len(procs[1].inbox) = 2
    /\ procs[1].inbox[1].tool_calls = <<[func |-> "echo", properties |-> "{a:1}"]>>
    /\ procs[1].inbox[2].tool_calls = <<[func |-> "echo", properties |-> "{}"]>>

\* C30: within one send the request line is written before the caller starts
\* to read: a caller comes to its read only by the step that appends its one
\* request line to the input of one child, reading nothing; every line that
\* reaches a child's input comes from such a step; and the step that ends the
\* read takes at most one line from the output of the caller's child and
\* nothing from any other.
C30_OneWriteThenOneRead ==
    /\ [][\A c \in Callers :
             callers[c].pc # "inv_recv" /\ callers'[c].pc = "inv_recv"
             => /\ callers[c].pc = "inv_send"
                /\ \A p \in Spawned :
                      /\ procs'[p].out = procs[p].out
                      /\ procs'[p].inbox
                            = IF p = callers'[c].proc
                              THEN Append(procs[p].inbox, JsonLine(callers[c].command, c))
                              ELSE procs[p].inbox]_vars
    /\ [][\A p \in Spawned :
             Len(procs'[p].inbox) > Len(procs[p].inbox)
             => \E c \in Callers :
                   /\ callers[c].pc = "inv_send" /\ callers'[c].pc = "inv_recv"
                   /\ callers'[c].proc = p]_vars
    /\ [][\A c \in Callers :
             callers[c].pc = "inv_recv" /\ callers'[c].pc # "inv_recv"
             => \A p \in Spawned :
                   /\ procs'[p].inbox = procs[p].inbox
                   /\ \/ procs'[p].out = procs[p].out
                      \/ /\ p = callers[c].proc /\ procs[p].out # <<>>
                         /\ procs'[p].out = Tail(procs[p].out)]_vars

\* alpha has written two replies; one caller has read one of them and
\* returned it, the other line is still in the pipe for the caller that waits
C30_Witness ==
    /\ Len(procs) = 1 /\ procs[1].name = "alpha"
    /\ Len(procs[1].out) = 1 /\ procs[1].inbox = <<>>
    /\ callers["c1"].op = "invoke" /\ callers["c1"].pc = "done"
    /\ callers["c1"].ret.kind = "reply"
    /\ MidRequest("c2", 1)

C24_CachedManifestStays ==
    [][\/ \E c \in Callers, n \in Names : LoadPluginManifest(c, n)
       \/ \A n \in Names :
             plugin_manifests[n].present => plugin_manifests'[n] = plugin_manifests[n]]_vars

\* C25: discover_plugins returns every immediate subdirectory of the root
\* that holds a manifest file exactly once and no other name (no plain file,
\* no subdirectory without a manifest), and the empty sequence when the root
\* does not exist.
C25_DiscoverExact ==
    [][\A c \in Callers :
          Discovers(c)
          => LET names == callers'[c].ret.obj
             IN  /\ callers'[c].ret.kind = "names"
                 /\ \A n \in Names :
                       Cardinality({i \in 1..Len(names) : names[i] = n})
                          = IF disk.root /\ disk.entry[n].kind = "plugin" THEN 1 ELSE 0
                 /\ ~disk.root => names = <<>>]_vars

\* with "alpha" turned into a plain file and "ghost" a directory without a
\* manifest, discover_plugins has returned the three other installed plugins
C25_Witness ==
    /\ disk.entry["alpha"] = PlainFile /\ disk.entry["ghost"] = BareDir
    /\ callers["c1"].op = "discover" /\ callers["c1"].pc = "done"
    /\ Len(callers["c1"].ret.obj) = 3
    /\ \A i \in 1..3 : callers["c1"].ret.obj[i] \in {"beta", "noexe", "nofile"}

\* the manifest of a discovered plugin can be had: it is in the cache, or its
\* file loads
Obtainable(n) == plugin_manifests[n].present \/ DiskManifest(n).present

\* C29: list_plugins returns one info record for every discovered plugin
\* whose manifest can be loaded and none for any other name; the running
\* field of a record tells whether the name is in running_plugins; and the
\* call starts and stops no plugin.
C29_ListExact ==
    [][\A c \in Callers :
          Lists(c)
          => LET infos == callers'[c].ret.obj
             IN  /\ \A n \in Names :
                       Cardinality({i \in 1..Len(infos) : infos[i].name = n})
                          = IF ManifestExists(n) /\ Obtainable(n) THEN 1 ELSE 0
                 /\ \A i \in 1..Len(infos) :
                       infos[i].running = InRunning(infos[i].name)
                 /\ UNCHANGED <<running_plugins, procs, monitors>>]_vars

\* the final responses main() has written since the last command was read
Finals == {i \in 1..Len(blackboxai.out) : blackboxai.out[i].final}

\* C27: the example plugin answers every command it has read with exactly
\* one final response, written before it reads the next command, whether
\* the command was well formed, malformed or unparseable.
C27_OneReplyPerCommand ==
    blackboxai.pc \in {"read", "stopped"} /\ blackboxai.reads > 0
       => Cardinality(Finals) = 1

\* C28: the loop of the example plugin ends if and only if shutdown was the
\* function of the most recent tool call processed, and right after the
\* response to it has been written; no other command ends the loop.
C28_EndsOnShutdownOnly ==
    /\ blackboxai.pc \in {"stopped", "crashed"}
          => /\ blackboxai.tool_call.func = "shutdown"
             /\ blackboxai.out # <<>>
             /\ blackboxai.out[Len(blackboxai.out)]
                   = [final |-> TRUE, response |-> GenerateSuccessResponse]
    /\ blackboxai.pc = "read" => blackboxai.tool_call.func # "shutdown"

----------------------------------------------------------------------------
(* Properties of the registry as a whole *)

C32_MonitorRemovesOwnEntry ==
    [][\A pid \in Pids :
          MonitorCleanup(pid) /\ running_plugins' # running_plugins
          => Registered(procs[pid].name) = pid]_vars

\* C33: GAssistCore.stop can be called again: the second call leaves
\* running = False, raises no error, and sends no signal to a process that
\* has exited and is out of running_plugins.
C33_StopTwice ==
    /\ [](nops >= 1 => ~running)
    /\ [](nops = 2 => callers["c1"].pc # "fault")
    /\ [][\A p \in Spawned :
             nops = 2 /\ procs'[p].sig # procs[p].sig
             => Live(p) \/ Registered(procs[p].name) = p]_vars

====
